---- MODULE Spec2Model ----
(***************************************************************************)
(* Model of file_watcher.lastrun_file_monitor.LastRunDetector, the        *)
(* DBUpdater watermark store it writes to, and the life of one watcher    *)
(* process (FileWatcher.start_watching) around it.                         *)
(*                                                                         *)
(* Run identifiers are digit text: sequences of digits, leading zeros     *)
(* kept.  Python values that may be None, int or str are tagged records.  *)
(***************************************************************************)
EXTENDS Integers, Sequences, FiniteSets, TLC

----------------------------------------------------------------------------
(* Bounds of the model *)

\* lowest run number the lastrun.txt file shows
MinRun == 8
\* the file shows run numbers MinRun .. MinRun + RunSpan (the window holds 9 -> 10)
RunSpan == 2
\* most leading zeros of a run number in lastrun.txt
MaxZeros == 2
\* number of things the environment does: rewrite lastrun.txt, add a run file,
\* let time pass, start a cycle, kill the process
MaxEnvSteps == 2
\* number of times the supervisor restarts the process
MaxRestarts == 1
\* number of creation events the observer delivers to the queue based watcher
MaxEvents == 3

MaxRun == MinRun + RunSpan
Runs == MinRun..MaxRun

----------------------------------------------------------------------------
(* Python values and digit text *)

None == [ty |-> "NoneType", n |-> 0, s |-> <<>>]
PyInt(n) == [ty |-> "int", n |-> n, s |-> <<>>]
PyStr(s) == [ty |-> "str", n |-> 0, s |-> s]

Zeros(k) == [i \in 1..k |-> 0]

\* str(n) of a non-negative int: decimal digits, no leading zeros
RECURSIVE str(_)
str(n) == IF n < 10 THEN <<n>> ELSE str(n \div 10) \o <<n % 10>>

\* int(s) of digit text
RECURSIVE int(_)
int(s) == IF Len(s) = 0 THEN 0 ELSE 10 * int(SubSeq(s, 1, Len(s) - 1)) + s[Len(s)]

\* int(v) of a Python value that is an int or digit text
PyToInt(v) == IF v.ty = "int" THEN v.n ELSE int(v.s)

\* re.match(r"^0*", string).group(0): the leading zeros of the text
RECURSIVE grab_zeros_from_beginning_of_string(_)
grab_zeros_from_beginning_of_string(string) ==
    IF Len(string) > 0 /\ string[1] = 0
    THEN <<0>> \o grab_zeros_from_beginning_of_string(Tail(string))
    ELSE <<>>

\* the texts lastrun.txt can show as its run number
RunTexts == {Zeros(z) \o str(n) : z \in 0..MaxZeros, n \in Runs}

----------------------------------------------------------------------------
(* The environment: lastrun.txt, the archive, the database row, the clock *)

\* a line of lastrun.txt, split(): "<instrument> <run> <unused>"
WellFormedLine(text) == <<"NDXMARI", text, "0">>
MalformedLines == {<<"garbage">>}
Lines == {WellFormedLine(t) : t \in RunTexts} \cup MalformedLines

\* cycle folders "cycle_23_1", "cycle_23_2": the characters that differ
OldCycle == <<2, 3, 1>>
NewCycle == <<2, 3, 2>>
Cycles == {OldCycle, NewCycle}

\* lexicographic order of two names (list.sort() of str)
RECURSIVE LexLess(_, _)
LexLess(a, b) ==
    IF Len(a) = 0 THEN Len(b) > 0
    ELSE IF Len(b) = 0 THEN FALSE
    ELSE IF a[1] # b[1] THEN a[1] < b[1]
    ELSE LexLess(Tail(a), Tail(b))

\* width of the run number in the archive's file names: <prefix>010.nxs
ArchiveWidth == 3
\* the run file of run n, when it is in the archive: runs below 10 were taken in
\* the old cycle, the others in the new one
RunFile(n) ==
    [cycle |-> IF n < 10 THEN OldCycle ELSE NewCycle,
     digits |-> Zeros(ArchiveWidth - Len(str(n))) \o str(n)]
\* the run files that can be in the archive: of every run lastrun.txt shows after
\* the first, and of the run after the last (its file is written before
\* lastrun.txt shows it)
ArchiveUniverse == {RunFile(n) : n \in (MinRun + 1)..(MaxRun + 1)}

\* seconds between two checks of the latest cycle folder
CycleRecheckSeconds == 21600
\* time passes in steps of exactly that, or of one second more
TickSeconds == {CycleRecheckSeconds, CycleRecheckSeconds + 1}

VARIABLES
    file,            \* lastrun.txt: the tokens of its first line
    db,              \* instruments.latest_run of this instrument's row, None: no row
    archive,         \* run files in <archive>/<instrument>/Instrument/data
    cyclesDir,       \* entries of <archive>/NDXWISH/instrument/data
    now,             \* datetime.datetime.now(), seconds
    budget,          \* environment steps left
    last_recorded_run_from_file,
    latest_known_run_from_db,
    latest_cycle,
    last_cycle_folder_check,
    pc,              \* where the process is
    error,           \* the exception that ended the process
    caller,          \* who called recover_lost_runs / new_run_detected
    rec,             \* frame of recover_lost_runs
    pend,            \* frame of new_run_detected: run_number, run_path
    inst,            \* number of the process (restarts)
    emitted,         \* calls of async_callback that returned, this process
    writes,          \* calls of update_db_with_latest_run that returned, this process
    trace,           \* calls made by the running handler (__init__/_init or one loop pass)
    iter,            \* the running or last handler: what it read and found
    regressed,       \* lastrun.txt went down, or the database started ahead of it
    shown,           \* int of the last well-formed run number lastrun.txt showed
    replayDue,       \* run the last process notified and did not persist, or None
    skipped,         \* run numbers earlier passes of this process logged and skipped
    broker,          \* calls on_event made to the broker for the run being notified
    queue,           \* SimpleQueue of the queue based watcher
    arrived,         \* creation events delivered to on_created, in order
    sent,            \* paths the queue based watch loop produced, in order
    got              \* what queue.get() returned and produce was not given yet

envVars == <<file, db, archive, cyclesDir, now, budget>>
objVars == <<last_recorded_run_from_file, latest_known_run_from_db, latest_cycle,
             last_cycle_folder_check>>
frameVars == <<pc, error, caller, rec, pend>>
histVars == <<inst, emitted, writes, trace, iter, regressed, shown, replayDue, skipped>>
queueVars == <<queue, arrived, sent, got>>
vars == <<envVars, objVars, frameVars, histVars, broker, queueVars>>

----------------------------------------------------------------------------
(* Pure parts of LastRunDetector *)

\* mutant: tokens after the third are ignored
get_last_run_from_file_at_least_three ==
    IF Len(file) < 3 THEN None ELSE PyStr(file[2])

\* mutant: a line that does not have three tokens is read as a run number
get_last_run_from_file_any_tokens ==
    IF Len(file) # 3 THEN PyStr(str(MaxRun)) ELSE PyStr(file[2])

\* get_last_run_from_file: the second of exactly three tokens, None for RuntimeError
get_last_run_from_file ==
    IF Len(file) # 3 THEN None ELSE PyStr(file[2])

\* mutant: the first entry of the sorted listing
get_latest_cycle_first ==
    CHOOSE c \in cyclesDir : \A d \in cyclesDir : ~LexLess(d, c)

\* get_latest_cycle: the last entry of the sorted listing; the caller handles the
\* empty listing (FileNotFoundError)
get_latest_cycle ==
    CHOOSE c \in cyclesDir : \A d \in cyclesDir : ~LexLess(c, d)

\* the integer column instruments.latest_run after the row is written with a value
ColumnInteger(v) == PyInt(PyToInt(v))

\* name ends with suffix: the glob "*<run_number>.nxs" on a file name
EndsWith(name, suffix) ==
    /\ Len(suffix) <= Len(name)
    /\ SubSeq(name, Len(name) - Len(suffix) + 1, Len(name)) = suffix

\* mutant: the search is for the file named by the run number alone
find_file_of_that_name(run_number) ==
    {f \in archive : f.digits = run_number}

\* find_file_in_instruments_data_folder: the files rglob("cycle_??_?/*<run>.nxs")
\* can list first; none is the IndexError of [0]
find_file_in_instruments_data_folder(run_number) ==
    {f \in archive : EndsWith(f.digits, run_number)}

\* generate_run_path: the paths it can return, none for FileNotFoundError
generate_run_path(run_number) ==
    LET path == [cycle |-> latest_cycle, digits |-> run_number]
    IN IF path \in archive THEN {path}
       ELSE find_file_in_instruments_data_folder(run_number)

\* mutant: the cycle is looked up again as soon as six hours have passed
CycleCheckDueAtSixHours(current_time, last_check) ==
    (current_time - last_check) >= CycleRecheckSeconds

\* watch_for_new_runs lines 113-115:
\* (current_time - self.last_cycle_folder_check).total_seconds() > 21600
CycleCheckDue(current_time, last_check) ==
    (current_time - last_check) > CycleRecheckSeconds

\* mutant: recovery at startup also when the two watermarks are equal
LocalAheadOfStoreOrLevel(known, recorded) == PyToInt(known) <= PyToInt(recorded)

\* _init line 86: int(self.latest_known_run_from_db) < int(self.last_recorded_run_from_file)
LocalAheadOfStore(known, recorded) == PyToInt(known) < PyToInt(recorded)

\* watch_for_new_runs line 127: run_in_file != self.last_recorded_run_from_file,
\* a comparison of str
NewRunInFile(run_in_file, recorded) == run_in_file # recorded

\* mutant: recovery for every difference of one or more
DifferenceAtLeastOne(run_in_file, recorded) == int(run_in_file) - int(recorded) >= 1

\* watch_for_new_runs line 130: int(run_in_file) - int(recorded) > 1
DifferenceAboveOne(run_in_file, recorded) == int(run_in_file) - int(recorded) > 1

\* mutant: the range starts at earlier_run itself
FirstLostRunInclusive(earlier_run) == int(earlier_run)

\* mutant: the range runs one past later_run
LastLostRunPlusOne(later_run) == int(later_run) + 1

\* recover_lost_runs line 195: range(int(earlier_run) + 1, int(later_run) + 1)
FirstLostRun(earlier_run) == int(earlier_run) + 1
LastLostRun(later_run) == int(later_run)

\* recover_lost_runs line 197
ActualRunNumber(initial_zeros, run) == initial_zeros \o str(run)

\* mutant: the candidate with one zero less is made from a prefix of one zero on
ActualRunNumber1LessZeroFromOneZero(initial_zeros, actual_run_number) ==
    IF Len(initial_zeros) > 0 THEN Tail(actual_run_number) ELSE actual_run_number

\* mutant: the candidate with one zero less is never made
ActualRunNumber1LessZeroNever(initial_zeros, actual_run_number) == actual_run_number

\* recover_lost_runs lines 200-204
ActualRunNumber1LessZero(initial_zeros, actual_run_number) ==
    IF Len(initial_zeros) > 1 THEN Tail(actual_run_number) ELSE actual_run_number

Call(op, a, b) == [op |-> op, a |-> a, b |-> b]
Write(run_number, by) == [run_number |-> run_number, by |-> by]
Found == <<1>>
NotFound == <<0>>

\* the run numbers a recovery batch that made the calls tr logged and skipped
SkippedRuns(tr) ==
    {int(tr[i].a) : i \in {j \in 1..Len(tr) :
                              /\ tr[j].op = "logger.exception"
                              /\ \E h \in 1..j : tr[h].op = "recover_lost_runs"}}

NoRec == [earlier_run |-> None, later_run |-> <<>>, initial_zeros |-> <<>>, run |-> 0]
NoPend == [run_number |-> <<>>, run_path |-> [cycle |-> <<>>, digits |-> <<>>]]
NoIter == [kind |-> "none", current |-> None, recorded0 |-> None, db0 |-> None,
           n0 |-> 0, w0 |-> 0, done |-> FALSE]

----------------------------------------------------------------------------
(* The process *)

Init ==
    /\ file \in {WellFormedLine(t) : t \in RunTexts}
    /\ db \in {None, PyInt(0)} \cup {PyInt(n) : n \in MinRun..int(file[2])}
    /\ archive \in SUBSET ArchiveUniverse
    /\ cyclesDir = {OldCycle}
    /\ now = 0
    /\ budget = MaxEnvSteps
    /\ last_recorded_run_from_file = None
    /\ latest_known_run_from_db = None
    /\ latest_cycle = <<>>
    /\ last_cycle_folder_check = 0
    /\ pc = "start"
    /\ error = "none"
    /\ caller = "none"
    /\ rec = NoRec
    /\ pend = NoPend
    /\ inst = 1
    /\ emitted = <<>>
    /\ writes = <<>>
    /\ trace = <<>>
    /\ iter = NoIter
    /\ shown = int(file[2])
    /\ regressed = (db # None /\ db.n > int(file[2]))
    /\ replayDue = None
    /\ skipped = {}
    /\ broker = <<>>
    /\ queue = <<>>
    /\ arrived = <<>>
    /\ sent = <<>>
    /\ got = <<>>

\* mutant: the exception is noted and the loop goes on
RaiseAndGoOn(e) ==
    /\ pc' = "steady"
    /\ error' = e

\* an exception leaves the running handler and ends the process
Raise(e) ==
    /\ pc' = "dead"
    /\ error' = e

\* mutant: __init__ reads the store before it reads lastrun.txt
ConstructStoreFirst ==
    /\ UNCHANGED <<broker, queueVars>>
    /\ pc = "start"
    /\ UNCHANGED <<file, archive, cyclesDir, now, budget, caller, rec, pend>>
    /\ UNCHANGED <<inst, emitted, regressed, shown, replayDue, skipped>>
    /\ LET read == get_last_run_from_file
       IN /\ iter' = [NoIter EXCEPT !.kind = "init", !.current = read, !.db0 = db]
          /\ \/ /\ read = None
                /\ Raise("RuntimeError")
                /\ latest_known_run_from_db' = db
                /\ UNCHANGED <<db, last_recorded_run_from_file, latest_cycle,
                               last_cycle_folder_check, writes, trace>>
             \/ /\ read # None
                /\ cyclesDir = {}
                /\ Raise("FileNotFoundError")
                /\ UNCHANGED <<db, objVars, writes, trace>>
             \/ /\ read # None
                /\ cyclesDir # {}
                /\ \E storeOk \in BOOLEAN :
                     IF ~storeOk
                     THEN /\ Raise("StoreError")
                          /\ UNCHANGED <<db, objVars, writes, trace>>
                     ELSE /\ pc' = "constructed"
                          /\ error' = error
                          /\ last_recorded_run_from_file' = read
                          /\ last_cycle_folder_check' = now
                          /\ latest_cycle' = get_latest_cycle
                          /\ IF db = None
                             THEN /\ db' = ColumnInteger(read)
                                  /\ latest_known_run_from_db' = read
                                  /\ writes' = Append(writes, Write(read.s, "__init__"))
                                  /\ trace' = <<Call("update_db_with_latest_run", read.s, <<>>)>>
                             ELSE /\ db' = db
                                  /\ latest_known_run_from_db' = db
                                  /\ writes' = writes
                                  /\ trace' = <<>>

\* LastRunDetector.__init__
Construct ==
    /\ UNCHANGED <<broker, queueVars>>
    /\ pc = "start"
    /\ UNCHANGED <<file, archive, cyclesDir, now, budget, caller, rec, pend>>
    /\ UNCHANGED <<inst, emitted, regressed, shown, replayDue, skipped>>
    /\ LET read == get_last_run_from_file
       IN /\ iter' = [NoIter EXCEPT !.kind = "init", !.current = read, !.db0 = db]
          /\ \/ /\ read = None
                /\ Raise("RuntimeError")
                /\ UNCHANGED <<db, objVars, writes, trace>>
             \/ /\ read # None
                /\ cyclesDir = {}
                /\ Raise("FileNotFoundError")
                /\ UNCHANGED <<db, objVars, writes, trace>>
             \/ /\ read # None
                /\ cyclesDir # {}
                /\ \E storeOk \in BOOLEAN :
                     IF ~storeOk
                     THEN /\ Raise("StoreError")
                          /\ UNCHANGED <<db, objVars, writes, trace>>
                     ELSE /\ pc' = "constructed"
                          /\ error' = error
                          /\ last_recorded_run_from_file' = read
                          /\ last_cycle_folder_check' = now
                          /\ latest_cycle' = get_latest_cycle
                          /\ IF db = None
                             THEN /\ db' = ColumnInteger(read)
                                  /\ latest_known_run_from_db' = read
                                  /\ writes' = Append(writes, Write(read.s, "__init__"))
                                  /\ trace' = <<Call("update_db_with_latest_run", read.s, <<>>)>>
                             ELSE /\ db' = db
                                  /\ latest_known_run_from_db' = db
                                  /\ writes' = writes
                                  /\ trace' = <<>>

\* mutant: the loop of recover_lost_runs ends after any run
AfterRunStops(run, recorded) ==
    /\ pc' = "steady"
    /\ rec' = NoRec
    /\ caller' = "none"
    /\ latest_known_run_from_db' =
           IF caller = "_init" THEN recorded ELSE latest_known_run_from_db
    /\ iter' = [iter EXCEPT !.done = TRUE]

\* the loop of recover_lost_runs is past run: the next run, or the return to the
\* caller (_init line 91, or the end of the loop pass)
AfterRun(run, recorded) ==
    IF run < LastLostRun(rec.later_run)
    THEN /\ pc' = "recover"
         /\ rec' = [rec EXCEPT !.run = run + 1]
         /\ caller' = caller
         /\ latest_known_run_from_db' = latest_known_run_from_db
         /\ iter' = iter
    ELSE /\ pc' = "steady"
         /\ rec' = NoRec
         /\ caller' = "none"
         /\ latest_known_run_from_db' =
                IF caller = "_init" THEN recorded ELSE latest_known_run_from_db
         /\ iter' = [iter EXCEPT !.done = TRUE]

\* recover_lost_runs(earlier_run, later_run) up to its loop
EnterRecover(earlier_run, later_run, who) ==
    IF earlier_run.ty # "str"
    THEN \* re.match on an int
         /\ Raise("TypeError")
         /\ UNCHANGED <<caller, rec>>
    ELSE /\ pc' = "recover"
         /\ error' = error
         /\ caller' = who
         /\ rec' = [earlier_run |-> earlier_run,
                    later_run |-> later_run.s,
                    initial_zeros |-> grab_zeros_from_beginning_of_string(earlier_run.s),
                    run |-> FirstLostRun(earlier_run.s)]

\* LastRunDetector._init
InitAsync ==
    /\ UNCHANGED <<broker, queueVars>>
    /\ pc = "constructed"
    /\ UNCHANGED <<envVars, objVars, pend>>
    /\ UNCHANGED <<inst, emitted, writes, regressed, shown, replayDue, skipped>>
    /\ IF LocalAheadOfStore(latest_known_run_from_db, last_recorded_run_from_file)
       THEN /\ EnterRecover(latest_known_run_from_db, last_recorded_run_from_file, "_init")
            /\ trace' = Append(trace, Call("recover_lost_runs",
                            IF latest_known_run_from_db.ty = "str"
                            THEN latest_known_run_from_db.s
                            ELSE str(latest_known_run_from_db.n),
                            last_recorded_run_from_file.s))
            /\ iter' = iter
       ELSE /\ pc' = "steady"
            /\ UNCHANGED <<error, caller, rec, trace>>
            /\ iter' = [iter EXCEPT !.done = TRUE]

\* mutant: new_run_detected goes on to the callback, with no path, when
\* generate_run_path raises
SingleRunNullPath(run_in_file, it) ==
    LET paths == generate_run_path(run_in_file.s)
        calls == <<Call("new_run_detected", run_in_file.s, <<>>)>>
    IN \/ /\ paths = {}
          /\ pend' = [run_number |-> run_in_file.s, run_path |-> NoPend.run_path]
          /\ pc' = "notify"
          /\ caller' = "watch_for_new_runs"
          /\ trace' = calls \o <<Call("generate_run_path", run_in_file.s, NotFound),
                                 Call("logger.exception", run_in_file.s, <<>>)>>
          /\ iter' = it
       \/ /\ paths # {}
          /\ \E path \in paths :
                pend' = [run_number |-> run_in_file.s, run_path |-> path]
          /\ pc' = "notify"
          /\ caller' = "watch_for_new_runs"
          /\ trace' = calls \o <<Call("generate_run_path", run_in_file.s, Found)>>
          /\ iter' = it

\* new_run_detected(run_number) of the single-run path, up to the callback:
\* generate_run_path, and the logged return when there is no file
SingleRun(run_in_file, it) ==
    LET paths == generate_run_path(run_in_file.s)
        calls == <<Call("new_run_detected", run_in_file.s, <<>>)>>
    IN \/ /\ paths = {}
          /\ pc' = pc
          /\ caller' = caller
          /\ pend' = pend
          /\ trace' = calls \o <<Call("generate_run_path", run_in_file.s, NotFound),
                                 Call("logger.exception", run_in_file.s, <<>>)>>
          /\ iter' = [it EXCEPT !.done = TRUE]
       \/ /\ paths # {}
          /\ \E path \in paths :
                pend' = [run_number |-> run_in_file.s, run_path |-> path]
          /\ pc' = "notify"
          /\ caller' = "watch_for_new_runs"
          /\ trace' = calls \o <<Call("generate_run_path", run_in_file.s, Found)>>
          /\ iter' = it

\* one pass of the loop of watch_for_new_runs, up to the first callback
Poll ==
    /\ UNCHANGED <<broker, queueVars>>
    /\ pc = "steady"
    /\ UNCHANGED <<envVars, last_recorded_run_from_file, latest_known_run_from_db>>
    /\ UNCHANGED <<inst, emitted, writes, regressed, shown, replayDue>>
    /\ skipped' = skipped \cup SkippedRuns(trace)
    /\ LET check == CycleCheckDue(now, last_cycle_folder_check)
           run_in_file == get_last_run_from_file
           it == [kind |-> "poll", current |-> run_in_file,
                  recorded0 |-> last_recorded_run_from_file, db0 |-> db,
                  n0 |-> Len(emitted), w0 |-> Len(writes), done |-> FALSE]
       IN IF check /\ cyclesDir = {}
          THEN /\ Raise("FileNotFoundError")
               /\ UNCHANGED <<latest_cycle, last_cycle_folder_check, caller, rec, pend>>
               /\ trace' = <<>>
               /\ iter' = it
          ELSE /\ latest_cycle' = IF check THEN get_latest_cycle ELSE latest_cycle
               /\ last_cycle_folder_check' = IF check THEN now ELSE last_cycle_folder_check
               /\ IF run_in_file = None
                  THEN \* RuntimeError: logged, next pass
                       /\ UNCHANGED <<frameVars>>
                       /\ trace' = <<Call("logger.exception", <<>>, <<>>)>>
                       /\ iter' = [it EXCEPT !.done = TRUE]
                  ELSE IF ~NewRunInFile(run_in_file.s, last_recorded_run_from_file.s)
                  THEN /\ UNCHANGED <<frameVars>>
                       /\ trace' = <<>>
                       /\ iter' = [it EXCEPT !.done = TRUE]
                  ELSE IF DifferenceAboveOne(run_in_file.s, last_recorded_run_from_file.s)
                  THEN /\ EnterRecover(last_recorded_run_from_file, run_in_file,
                                       "watch_for_new_runs")
                       /\ pend' = pend
                       /\ trace' = <<Call("recover_lost_runs",
                                          last_recorded_run_from_file.s, run_in_file.s)>>
                       /\ iter' = it
                  ELSE /\ error' = error
                       /\ rec' = rec
                       /\ SingleRun(run_in_file, it)

\* one run of the loop of recover_lost_runs, up to the callback: both candidates
RecoverStep ==
    /\ UNCHANGED <<broker, queueVars>>
    /\ pc = "recover"
    /\ UNCHANGED <<envVars, last_recorded_run_from_file, latest_cycle,
                   last_cycle_folder_check, error>>
    /\ UNCHANGED <<inst, emitted, writes, regressed, shown, replayDue, skipped>>
    /\ LET actual_run_number == ActualRunNumber(rec.initial_zeros, rec.run)
           actual_run_number_1_less_zero ==
               ActualRunNumber1LessZero(rec.initial_zeros, actual_run_number)
           paths == generate_run_path(actual_run_number)
           alt_paths == generate_run_path(actual_run_number_1_less_zero)
           first == <<Call("run", str(rec.run), <<>>)>>
       IN \/ /\ paths # {}
             /\ \E run_path \in paths :
                   pend' = [run_number |-> actual_run_number, run_path |-> run_path]
             /\ pc' = "notify"
             /\ trace' = trace \o first
                           \o <<Call("generate_run_path", actual_run_number, Found)>>
             /\ UNCHANGED <<caller, rec, latest_known_run_from_db, iter>>
          \/ /\ paths = {}
             /\ actual_run_number_1_less_zero # actual_run_number
             /\ alt_paths # {}
             /\ \E alt_run_path \in alt_paths :
                   pend' = [run_number |-> actual_run_number_1_less_zero,
                            run_path |-> alt_run_path]
             /\ pc' = "notify"
             /\ trace' = trace \o first
                           \o <<Call("generate_run_path", actual_run_number, NotFound),
                                Call("generate_run_path", actual_run_number_1_less_zero, Found)>>
             /\ UNCHANGED <<caller, rec, latest_known_run_from_db, iter>>
          \/ /\ paths = {}
             /\ actual_run_number_1_less_zero # actual_run_number
             /\ alt_paths = {}
             /\ pend' = pend
             /\ trace' = trace \o first
                           \o <<Call("generate_run_path", actual_run_number, NotFound),
                                Call("generate_run_path", actual_run_number_1_less_zero, NotFound),
                                Call("logger.exception", actual_run_number_1_less_zero, <<>>)>>
             /\ AfterRun(rec.run, last_recorded_run_from_file)
          \/ /\ paths = {}
             /\ actual_run_number_1_less_zero = actual_run_number
             /\ pend' = pend
             /\ trace' = trace \o first
                           \o <<Call("generate_run_path", actual_run_number, NotFound),
                                Call("logger.exception", actual_run_number, <<>>)>>
             /\ AfterRun(rec.run, last_recorded_run_from_file)

\* a call on_event made to the broker, and how it ended
BrokerCall(op, path, result) == [op |-> op, path |-> path, result |-> result]
NoPath == [cycle |-> <<>>, digits |-> <<>>]
\* how producer.produce can end: the except clause of on_event is for MemphisError
ProduceResults == {"ok", "MemphisError", "Exception"}

\* mutant: on_event without its except clause
on_event_without_retry(path, isConnected, connectOk, produced, reconnectOk, retried) ==
    LET asked == <<BrokerCall("is_connected", NoPath, IF isConnected THEN "True" ELSE "False")>>
        connected ==
            IF isConnected THEN asked
            ELSE Append(asked, BrokerCall("connect_to_broker", NoPath,
                                          IF connectOk THEN "ok" ELSE "MemphisError"))
        first == Append(connected, BrokerCall("produce", path, produced))
    IN IF ~isConnected /\ ~connectOk THEN [calls |-> connected, raised |-> TRUE]
       ELSE [calls |-> first, raised |-> produced # "ok"]

\* mutant: on_event asks is_connected() and produces whatever the answer
on_event_without_connect(path, isConnected, connectOk, produced, reconnectOk, retried) ==
    LET asked == <<BrokerCall("is_connected", NoPath, IF isConnected THEN "True" ELSE "False")>>
        first == Append(asked, BrokerCall("produce", path, produced))
        again == Append(first, BrokerCall("connect_to_broker", NoPath,
                                          IF reconnectOk THEN "ok" ELSE "MemphisError"))
    IN IF produced = "ok" THEN [calls |-> first, raised |-> FALSE]
       ELSE IF produced # "MemphisError" THEN [calls |-> first, raised |-> TRUE]
       ELSE IF ~reconnectOk THEN [calls |-> again, raised |-> TRUE]
       ELSE [calls |-> Append(again, BrokerCall("produce", path, retried)),
             raised |-> retried # "ok"]

\* FileWatcher.on_event(path) for the path of a file: the calls it makes to the
\* broker and whether an exception leaves it, given what is_connected() answers
\* and how each call would end
on_event(path, isConnected, connectOk, produced, reconnectOk, retried) ==
    LET asked == <<BrokerCall("is_connected", NoPath, IF isConnected THEN "True" ELSE "False")>>
        connected ==
            IF isConnected THEN asked
            ELSE Append(asked, BrokerCall("connect_to_broker", NoPath,
                                          IF connectOk THEN "ok" ELSE "MemphisError"))
        first == Append(connected, BrokerCall("produce", path, produced))
        again == Append(first, BrokerCall("connect_to_broker", NoPath,
                                          IF reconnectOk THEN "ok" ELSE "MemphisError"))
    IN IF ~isConnected /\ ~connectOk THEN [calls |-> connected, raised |-> TRUE]
       ELSE IF produced = "ok" THEN [calls |-> first, raised |-> FALSE]
       ELSE IF produced # "MemphisError" THEN [calls |-> first, raised |-> TRUE]
       ELSE IF ~reconnectOk THEN [calls |-> again, raised |-> TRUE]
       ELSE [calls |-> Append(again, BrokerCall("produce", path, retried)),
             raised |-> retried # "ok"]

\* mutant: new_run_detected goes on to its store write when the callback raises
NotifyFailureSwallowed ==
    /\ UNCHANGED queueVars
    /\ pc = "notify"
    /\ UNCHANGED <<envVars, objVars, caller, rec, pend>>
    /\ UNCHANGED <<inst, writes, iter, regressed, shown, replayDue, skipped>>
    /\ \E isConnected, connectOk, reconnectOk \in BOOLEAN :
       \E produced, retried \in ProduceResults :
         LET event == on_event(pend.run_path, isConnected, connectOk, produced,
                               reconnectOk, retried)
         IN /\ broker' = event.calls
            /\ pc' = "persist"
            /\ error' = error
            /\ IF ~event.raised
               THEN /\ emitted' = Append(emitted, pend)
                    /\ trace' = Append(trace, Call("async_callback", pend.run_number, <<>>))
               ELSE UNCHANGED <<emitted, trace>>

\* new_run_detected line 164: await self.async_callback(run_path), which is
\* _event_occurred and, the path not being None, on_event
Notify ==
    /\ UNCHANGED queueVars
    /\ pc = "notify"
    /\ UNCHANGED <<envVars, objVars, caller, rec, pend>>
    /\ UNCHANGED <<inst, writes, iter, regressed, shown, replayDue, skipped>>
    /\ \E isConnected, connectOk, reconnectOk \in BOOLEAN :
       \E produced, retried \in ProduceResults :
         LET event == on_event(pend.run_path, isConnected, connectOk, produced,
                               reconnectOk, retried)
         IN /\ broker' = event.calls
            /\ IF ~event.raised
               THEN /\ pc' = "persist"
                    /\ error' = error
                    /\ emitted' = Append(emitted, pend)
                    /\ trace' = Append(trace, Call("async_callback", pend.run_number, <<>>))
               ELSE /\ Raise("EmissionError")
                    /\ UNCHANGED <<emitted, trace>>

\* mutant: new_run_detected without its store write
PersistForgotten ==
    /\ UNCHANGED <<broker, queueVars>>
    /\ pc = "persist"
    /\ pc' = "advance"
    /\ UNCHANGED <<envVars, objVars, error, caller, rec, pend, histVars>>

\* mutant: new_run_detected goes on when its store write fails
PersistFailureSwallowed ==
    /\ UNCHANGED <<broker, queueVars>>
    /\ pc = "persist"
    /\ UNCHANGED <<file, archive, cyclesDir, now, budget, objVars, caller, rec, pend>>
    /\ UNCHANGED <<inst, emitted, iter, regressed, shown, skipped>>
    /\ \E storeOk \in BOOLEAN :
         IF storeOk
         THEN /\ pc' = "advance"
              /\ error' = error
              /\ db' = ColumnInteger(PyStr(pend.run_number))
              /\ writes' = Append(writes, Write(pend.run_number, "new_run_detected"))
              /\ trace' = Append(trace, Call("update_db_with_latest_run",
                                             pend.run_number, <<>>))
              /\ replayDue' = replayDue
         ELSE /\ pc' = "advance"
              /\ error' = error
              /\ UNCHANGED <<db, writes, trace, replayDue>>

\* new_run_detected line 165: self.update_db_with_latest_run(run_number)
Persist ==
    /\ UNCHANGED <<broker, queueVars>>
    /\ pc = "persist"
    /\ UNCHANGED <<file, archive, cyclesDir, now, budget, objVars, caller, rec, pend>>
    /\ UNCHANGED <<inst, emitted, iter, regressed, shown, skipped>>
    /\ \E storeOk \in BOOLEAN :
         IF storeOk
         THEN /\ pc' = "advance"
              /\ error' = error
              /\ db' = ColumnInteger(PyStr(pend.run_number))
              /\ writes' = Append(writes, Write(pend.run_number, "new_run_detected"))
              /\ trace' = Append(trace, Call("update_db_with_latest_run",
                                             pend.run_number, <<>>))
              /\ replayDue' = replayDue
         ELSE /\ Raise("StoreError")
              /\ UNCHANGED <<db, writes, trace, replayDue>>

\* mutant: new_run_detected without the assignment of its last line
AdvanceForgotten ==
    /\ UNCHANGED queueVars
    /\ broker' = <<>>
    /\ pc = "advance"
    /\ UNCHANGED <<envVars, latest_cycle, last_cycle_folder_check, error>>
    /\ UNCHANGED <<inst, emitted, writes, trace, regressed, shown, replayDue, skipped>>
    /\ last_recorded_run_from_file' = last_recorded_run_from_file
    /\ pend' = NoPend
    /\ IF caller = "watch_for_new_runs" /\ rec = NoRec
       THEN /\ pc' = "steady"
            /\ caller' = "none"
            /\ rec' = rec
            /\ latest_known_run_from_db' = latest_known_run_from_db
            /\ iter' = [iter EXCEPT !.done = TRUE]
       ELSE AfterRun(rec.run, PyStr(pend.run_number))

\* new_run_detected line 166: self.last_recorded_run_from_file = run_number, and
\* the return to the loop of recover_lost_runs or of watch_for_new_runs
Advance ==
    /\ UNCHANGED queueVars
    /\ broker' = <<>>
    /\ pc = "advance"
    /\ UNCHANGED <<envVars, latest_cycle, last_cycle_folder_check, error>>
    /\ UNCHANGED <<inst, emitted, writes, trace, regressed, shown, replayDue, skipped>>
    /\ last_recorded_run_from_file' = PyStr(pend.run_number)
    /\ pend' = NoPend
    /\ IF caller = "watch_for_new_runs" /\ rec = NoRec
       THEN /\ pc' = "steady"
            /\ caller' = "none"
            /\ rec' = rec
            /\ latest_known_run_from_db' = latest_known_run_from_db
            /\ iter' = [iter EXCEPT !.done = TRUE]
       ELSE AfterRun(rec.run, PyStr(pend.run_number))

----------------------------------------------------------------------------
(* The environment *)

\* the process is not inside __init__/_init or a pass of the loop: what the
\* environment does to lastrun.txt, the cycle listing and the clock while it is
\* inside one is read by the next pass only
Quiescent == pc \in {"start", "steady", "dead"}

\* the instrument control software rewrites lastrun.txt
EnvSetFile ==
    /\ UNCHANGED <<broker, queueVars>>
    /\ budget > 0
    /\ Quiescent
    /\ \E line \in Lines :
         /\ line # file
         /\ file' = line
         /\ shown' = IF Len(line) = 3 THEN int(line[2]) ELSE shown
         /\ regressed' = (regressed \/ (Len(line) = 3 /\ int(line[2]) < shown))
    /\ budget' = budget - 1
    /\ UNCHANGED <<db, archive, cyclesDir, now, objVars, frameVars>>
    /\ UNCHANGED <<inst, emitted, writes, trace, iter, replayDue, skipped>>

\* a run file arrives in the archive
EnvAddFile ==
    /\ UNCHANGED <<broker, queueVars>>
    /\ budget > 0
    /\ \E f \in ArchiveUniverse \ archive : archive' = archive \cup {f}
    /\ budget' = budget - 1
    /\ UNCHANGED <<file, db, cyclesDir, now, objVars, frameVars, histVars>>

\* time passes
EnvTick ==
    /\ UNCHANGED <<broker, queueVars>>
    /\ budget > 0
    /\ Quiescent
    /\ \E d \in TickSeconds : now' = now + d
    /\ budget' = budget - 1
    /\ UNCHANGED <<file, db, archive, cyclesDir, objVars, frameVars, histVars>>

\* a new cycle starts
EnvNewCycle ==
    /\ UNCHANGED <<broker, queueVars>>
    /\ budget > 0
    /\ Quiescent
    /\ NewCycle \notin cyclesDir
    /\ cyclesDir' = cyclesDir \cup {NewCycle}
    /\ budget' = budget - 1
    /\ UNCHANGED <<file, db, archive, now, objVars, frameVars, histVars>>

\* the store writes new_run_detected made, this process
EmissionWrites == SelectSeq(writes, LAMBDA w : w.by = "new_run_detected")

\* the process is killed
Kill ==
    /\ UNCHANGED <<broker, queueVars>>
    /\ budget > 0
    /\ pc \notin {"start", "dead"}
    /\ inst <= MaxRestarts
    /\ Raise("killed")
    /\ budget' = budget - 1
    /\ UNCHANGED <<file, db, archive, cyclesDir, now, objVars, caller, rec, pend>>
    /\ UNCHANGED <<histVars>>

\* the supervisor starts the process again
Restart ==
    /\ UNCHANGED queueVars
    /\ pc = "dead"
    /\ inst <= MaxRestarts
    /\ pc' = "start"
    /\ error' = "none"
    /\ caller' = "none"
    /\ rec' = NoRec
    /\ pend' = NoPend
    /\ inst' = inst + 1
    /\ last_recorded_run_from_file' = None
    /\ latest_known_run_from_db' = None
    /\ latest_cycle' = <<>>
    /\ last_cycle_folder_check' = 0
    /\ emitted' = <<>>
    /\ writes' = <<>>
    /\ trace' = <<>>
    /\ iter' = NoIter
    /\ replayDue' = IF Len(emitted) > Len(EmissionWrites)
                    THEN PyStr(emitted[Len(emitted)].run_number)
                    ELSE None
    /\ skipped' = {}
    /\ broker' = <<>>
    /\ UNCHANGED <<envVars, regressed, shown>>

Next ==
    \/ Construct
    \/ InitAsync
    \/ Poll
    \/ RecoverStep
    \/ Notify
    \/ Persist
    \/ Advance
    \/ EnvSetFile
    \/ EnvAddFile
    \/ EnvTick
    \/ EnvNewCycle
    \/ Kill
    \/ Restart

Spec == Init /\ [][Next]_vars

TypeOK ==
    /\ pc \in {"start", "constructed", "steady", "recover", "notify", "persist",
               "advance", "dead", "watch", "get", "blocked", "produce"}
    /\ db.ty \in {"NoneType", "int"}

----------------------------------------------------------------------------
(* The detector of an instrument whose run numbers are four digits wide, from  *)
(* run 1 to the roll over 9 -> 10: lastrun.txt shows "0001", then "0010" or    *)
(* "0011"                                                                      *)

PadRecorded == <<0, 0, 0, 1>>
PadLines == {WellFormedLine(<<0, 0, 1, 0>>), WellFormedLine(<<0, 0, 1, 1>>)}
\* the run files of runs 10 and 11 the archive can hold, under three widths
PadArchiveUniverse ==
    {[cycle |-> OldCycle, digits |-> d] :
        d \in {<<0, 0, 0, 1, 0>>, <<0, 0, 1, 0>>, <<0, 1, 0>>, <<0, 0, 1, 1>>}}

InitPad ==
    /\ file = WellFormedLine(PadRecorded)
    /\ db = None
    /\ archive \in SUBSET PadArchiveUniverse
    /\ cyclesDir = {OldCycle}
    /\ now = 0
    /\ budget = MaxEnvSteps
    /\ last_recorded_run_from_file = None
    /\ latest_known_run_from_db = None
    /\ latest_cycle = <<>>
    /\ last_cycle_folder_check = 0
    /\ pc = "start"
    /\ error = "none"
    /\ caller = "none"
    /\ rec = NoRec
    /\ pend = NoPend
    /\ inst = 1
    /\ emitted = <<>>
    /\ writes = <<>>
    /\ trace = <<>>
    /\ iter = NoIter
    /\ shown = int(file[2])
    /\ regressed = FALSE
    /\ replayDue = None
    /\ skipped = {}
    /\ broker = <<>>
    /\ queue = <<>>
    /\ arrived = <<>>
    /\ sent = <<>>
    /\ got = <<>>

\* the instrument control software rewrites lastrun.txt
EnvSetFilePad ==
    /\ UNCHANGED <<broker, queueVars>>
    /\ budget > 0
    /\ Quiescent
    /\ \E line \in PadLines :
         /\ line # file
         /\ file' = line
         /\ shown' = int(line[2])
         /\ regressed' = (regressed \/ int(line[2]) < shown)
    /\ budget' = budget - 1
    /\ UNCHANGED <<db, archive, cyclesDir, now, objVars, frameVars>>
    /\ UNCHANGED <<inst, emitted, writes, trace, iter, replayDue, skipped>>

NextPad ==
    \/ Construct
    \/ InitAsync
    \/ Poll
    \/ RecoverStep
    \/ Notify
    \/ Persist
    \/ Advance
    \/ EnvSetFilePad

SpecPad == InitPad /\ [][NextPad]_vars

----------------------------------------------------------------------------
(* The detector over a changing listing of NDXWISH/instrument/data: any set of *)
(* entries, none included; lastrun.txt does not change                         *)

EarlierCycle == <<2, 2, 1>>
\* an entry that is not a cycle folder, a prefix of the cycle names
ShortEntry == <<2, 3>>
CycleNames == Cycles \cup {EarlierCycle, ShortEntry}

InitCycles ==
    /\ file = WellFormedLine(str(MinRun))
    /\ db = None
    /\ archive = {}
    /\ cyclesDir \in SUBSET CycleNames
    /\ now = 0
    /\ budget = MaxEnvSteps
    /\ last_recorded_run_from_file = None
    /\ latest_known_run_from_db = None
    /\ latest_cycle = <<>>
    /\ last_cycle_folder_check = 0
    /\ pc = "start"
    /\ error = "none"
    /\ caller = "none"
    /\ rec = NoRec
    /\ pend = NoPend
    /\ inst = 1
    /\ emitted = <<>>
    /\ writes = <<>>
    /\ trace = <<>>
    /\ iter = NoIter
    /\ shown = int(file[2])
    /\ regressed = FALSE
    /\ replayDue = None
    /\ skipped = {}
    /\ broker = <<>>
    /\ queue = <<>>
    /\ arrived = <<>>
    /\ sent = <<>>
    /\ got = <<>>

\* entries appear in the listing and disappear from it
EnvSetCycles ==
    /\ UNCHANGED <<broker, queueVars>>
    /\ budget > 0
    /\ Quiescent
    /\ \E listing \in SUBSET CycleNames :
         /\ listing # cyclesDir
         /\ cyclesDir' = listing
    /\ budget' = budget - 1
    /\ UNCHANGED <<file, db, archive, now, objVars, frameVars, histVars>>

NextCycles ==
    \/ Construct
    \/ InitAsync
    \/ Poll
    \/ EnvTick
    \/ EnvSetCycles
    \/ Restart

SpecCycles == InitCycles /\ [][NextCycles]_vars

----------------------------------------------------------------------------
(* The detector over a lastrun.txt whose first line has any number of tokens,  *)
(* none included; every run file is in the archive                             *)

TokenLines ==
    {<<>>, <<"garbage">>, <<"NDXMARI", str(MinRun + 1)>>,
     <<"NDXMARI", str(MinRun + 1), "0", "extra">>}
    \cup {WellFormedLine(str(n)) : n \in Runs}

InitTokens ==
    /\ file \in TokenLines
    /\ db = None
    /\ archive = ArchiveUniverse
    /\ cyclesDir = {OldCycle}
    /\ now = 0
    /\ budget = MaxEnvSteps
    /\ last_recorded_run_from_file = None
    /\ latest_known_run_from_db = None
    /\ latest_cycle = <<>>
    /\ last_cycle_folder_check = 0
    /\ pc = "start"
    /\ error = "none"
    /\ caller = "none"
    /\ rec = NoRec
    /\ pend = NoPend
    /\ inst = 1
    /\ emitted = <<>>
    /\ writes = <<>>
    /\ trace = <<>>
    /\ iter = NoIter
    /\ shown = IF Len(file) = 3 THEN int(file[2]) ELSE MinRun
    /\ regressed = FALSE
    /\ replayDue = None
    /\ skipped = {}
    /\ broker = <<>>
    /\ queue = <<>>
    /\ arrived = <<>>
    /\ sent = <<>>
    /\ got = <<>>

\* the instrument control software rewrites lastrun.txt, or is half way
\* through doing so
EnvSetFileTokens ==
    /\ UNCHANGED <<broker, queueVars>>
    /\ budget > 0
    /\ Quiescent
    /\ \E line \in TokenLines :
         /\ line # file
         /\ file' = line
         /\ shown' = IF Len(line) = 3 THEN int(line[2]) ELSE shown
         /\ regressed' = (regressed \/ (Len(line) = 3 /\ int(line[2]) < shown))
    /\ budget' = budget - 1
    /\ UNCHANGED <<db, archive, cyclesDir, now, objVars, frameVars>>
    /\ UNCHANGED <<inst, emitted, writes, trace, iter, replayDue, skipped>>

NextTokens ==
    \/ Construct
    \/ InitAsync
    \/ Poll
    \/ RecoverStep
    \/ Notify
    \/ Persist
    \/ Advance
    \/ EnvSetFileTokens
    \/ Restart

SpecTokens == InitTokens /\ [][NextTokens]_vars

----------------------------------------------------------------------------
(* The detector of an instrument whose run numbers are two digits wide, in     *)
(* lastrun.txt and in the archive, over the roll over 09 -> 10                 *)

WidthRecorded == <<0, 8>>
WidthLines == {WellFormedLine(t) : t \in {<<0, 9>>, <<1, 0>>, <<1, 1>>}}
\* the run files of runs 9, 10 and 11, all of the same cycle
WidthArchiveUniverse ==
    {[cycle |-> OldCycle, digits |-> d] : d \in {<<0, 9>>, <<1, 0>>, <<1, 1>>}}

InitWidth ==
    /\ file = WellFormedLine(WidthRecorded)
    /\ db = None
    /\ archive \in SUBSET WidthArchiveUniverse
    /\ cyclesDir = {OldCycle}
    /\ now = 0
    /\ budget = MaxEnvSteps
    /\ last_recorded_run_from_file = None
    /\ latest_known_run_from_db = None
    /\ latest_cycle = <<>>
    /\ last_cycle_folder_check = 0
    /\ pc = "start"
    /\ error = "none"
    /\ caller = "none"
    /\ rec = NoRec
    /\ pend = NoPend
    /\ inst = 1
    /\ emitted = <<>>
    /\ writes = <<>>
    /\ trace = <<>>
    /\ iter = NoIter
    /\ shown = int(file[2])
    /\ regressed = FALSE
    /\ replayDue = None
    /\ skipped = {}
    /\ broker = <<>>
    /\ queue = <<>>
    /\ arrived = <<>>
    /\ sent = <<>>
    /\ got = <<>>

\* the instrument control software rewrites lastrun.txt
EnvSetFileWidth ==
    /\ UNCHANGED <<broker, queueVars>>
    /\ budget > 0
    /\ Quiescent
    /\ \E line \in WidthLines :
         /\ line # file
         /\ file' = line
         /\ shown' = int(line[2])
         /\ regressed' = (regressed \/ int(line[2]) < shown)
    /\ budget' = budget - 1
    /\ UNCHANGED <<db, archive, cyclesDir, now, objVars, frameVars>>
    /\ UNCHANGED <<inst, emitted, writes, trace, iter, replayDue, skipped>>

NextWidth ==
    \/ Construct
    \/ InitAsync
    \/ Poll
    \/ RecoverStep
    \/ Notify
    \/ Persist
    \/ Advance
    \/ EnvSetFileWidth

SpecWidth == InitWidth /\ [][NextWidth]_vars

----------------------------------------------------------------------------
(* The detector of an instrument whose archive holds runs 2 and 12, with file  *)
(* names that are not padded: <prefix>2.nxs, <prefix>12.nxs; lastrun.txt shows *)
(* "1", then "2"                                                               *)

SuffixLines == {WellFormedLine(<<1>>), WellFormedLine(<<2>>)}
\* the file of run 2, in the latest cycle or in an earlier one, and the file of
\* run 12
SuffixArchiveUniverse ==
    {[cycle |-> OldCycle, digits |-> <<2>>],
     [cycle |-> EarlierCycle, digits |-> <<2>>],
     [cycle |-> OldCycle, digits |-> <<1, 2>>]}

InitSuffix ==
    /\ file = WellFormedLine(<<1>>)
    /\ db = None
    /\ archive \in SUBSET SuffixArchiveUniverse
    /\ cyclesDir = {OldCycle}
    /\ now = 0
    /\ budget = MaxEnvSteps
    /\ last_recorded_run_from_file = None
    /\ latest_known_run_from_db = None
    /\ latest_cycle = <<>>
    /\ last_cycle_folder_check = 0
    /\ pc = "start"
    /\ error = "none"
    /\ caller = "none"
    /\ rec = NoRec
    /\ pend = NoPend
    /\ inst = 1
    /\ emitted = <<>>
    /\ writes = <<>>
    /\ trace = <<>>
    /\ iter = NoIter
    /\ shown = int(file[2])
    /\ regressed = FALSE
    /\ replayDue = None
    /\ skipped = {}
    /\ broker = <<>>
    /\ queue = <<>>
    /\ arrived = <<>>
    /\ sent = <<>>
    /\ got = <<>>

\* the instrument control software rewrites lastrun.txt
EnvSetFileSuffix ==
    /\ UNCHANGED <<broker, queueVars>>
    /\ budget > 0
    /\ Quiescent
    /\ \E line \in SuffixLines :
         /\ line # file
         /\ file' = line
         /\ shown' = int(line[2])
         /\ regressed' = (regressed \/ int(line[2]) < shown)
    /\ budget' = budget - 1
    /\ UNCHANGED <<db, archive, cyclesDir, now, objVars, frameVars>>
    /\ UNCHANGED <<inst, emitted, writes, trace, iter, replayDue, skipped>>

NextSuffix ==
    \/ Construct
    \/ InitAsync
    \/ Poll
    \/ Notify
    \/ Persist
    \/ Advance
    \/ EnvSetFileSuffix

SpecSuffix == InitSuffix /\ [][NextSuffix]_vars

----------------------------------------------------------------------------
(* The detector that found no row in the store, with a loop that goes on: no   *)
(* kill, no restart, one cycle; lastrun.txt changes and run files arrive       *)

InitRetry == Init /\ db = None

\* the steps of the process: start_watching, from the constructor to the passes
\* of the loop of watch_for_new_runs
LoopSteps ==
    \/ Construct
    \/ InitAsync
    \/ Poll
    \/ RecoverStep
    \/ Notify
    \/ Persist
    \/ Advance

NextRetry ==
    \/ LoopSteps
    \/ EnvSetFile
    \/ EnvAddFile

\* while run: ... sleep(0.1): a process that is not stopped takes its next step
SpecRetry == InitRetry /\ [][NextRetry]_vars /\ WF_vars(LoopSteps)

----------------------------------------------------------------------------
(* The queue based watcher of file_watcher.file_watcher: the observer thread   *)
(* delivers creation events to QueueBasedEventHandler.on_created, the loop of  *)
(* watch takes paths off the queue and produces them                           *)

EventPaths == {"a.nxs", "b.nxs"}
\* FileCreatedEvent: src_path, is_directory
Events == [src_path : EventPaths, is_directory : BOOLEAN]

\* the src_path of the events of a sequence that are not of directories
RECURSIVE FilePaths(_)
FilePaths(events) ==
    IF events = <<>> THEN <<>>
    ELSE IF Head(events).is_directory THEN FilePaths(Tail(events))
    ELSE <<Head(events).src_path>> \o FilePaths(Tail(events))

InitQueue ==
    /\ file = WellFormedLine(str(MinRun))
    /\ db = None
    /\ archive = {}
    /\ cyclesDir = {OldCycle}
    /\ now = 0
    /\ budget = MaxEnvSteps
    /\ last_recorded_run_from_file = None
    /\ latest_known_run_from_db = None
    /\ latest_cycle = <<>>
    /\ last_cycle_folder_check = 0
    /\ pc = "watch"
    /\ error = "none"
    /\ caller = "none"
    /\ rec = NoRec
    /\ pend = NoPend
    /\ inst = 1
    /\ emitted = <<>>
    /\ writes = <<>>
    /\ trace = <<>>
    /\ iter = NoIter
    /\ shown = int(file[2])
    /\ regressed = FALSE
    /\ replayDue = None
    /\ skipped = {}
    /\ broker = <<>>
    /\ queue = <<>>
    /\ arrived = <<>>
    /\ sent = <<>>
    /\ got = <<>>

\* mutant: on_created puts the path of every event on the queue
on_created_every_event ==
    /\ Len(arrived) < MaxEvents
    /\ \E event \in Events :
         /\ arrived' = Append(arrived, event)
         /\ queue' = Append(queue, event.src_path)
    /\ UNCHANGED <<envVars, objVars, frameVars, histVars, broker, sent, got>>

\* QueueBasedEventHandler.on_created(event), called by the observer thread
on_created ==
    /\ Len(arrived) < MaxEvents
    /\ \E event \in Events :
         /\ arrived' = Append(arrived, event)
         /\ queue' = IF event.is_directory THEN queue
                     ELSE Append(queue, event.src_path)
    /\ UNCHANGED <<envVars, objVars, frameVars, histVars, broker, sent, got>>

\* mutant: the loop produces the head of the queue and leaves it there
watch_without_get ==
    /\ pc = "watch"
    /\ UNCHANGED <<envVars, objVars, caller, rec, pend, histVars, broker, arrived, got>>
    /\ IF queue = <<>>
       THEN UNCHANGED <<queue, sent, pc, error>>
       ELSE /\ queue' = queue
            /\ \E produceOk \in BOOLEAN :
                 IF produceOk
                 THEN /\ sent' = Append(sent, Head(queue))
                      /\ UNCHANGED <<pc, error>>
                 ELSE /\ Raise("EmissionError")
                      /\ sent' = sent

\* one pass of the loop of watch: queue.empty(), queue.get(), producer.produce
watch ==
    /\ pc = "watch"
    /\ UNCHANGED <<envVars, objVars, caller, rec, pend, histVars, broker, arrived, got>>
    /\ IF queue = <<>>
       THEN UNCHANGED <<queue, sent, pc, error>>
       ELSE /\ queue' = Tail(queue)
            /\ \E produceOk \in BOOLEAN :
                 IF produceOk
                 THEN /\ sent' = Append(sent, Head(queue))
                      /\ UNCHANGED <<pc, error>>
                 ELSE /\ Raise("EmissionError")
                      /\ sent' = sent

NextQueue ==
    \/ on_created
    \/ watch

SpecQueue == InitQueue /\ [][NextQueue]_vars

\* the loop of watch runs as long as the process does: a pass is made again
\* and again
SpecQueueFair == InitQueue /\ [][NextQueue]_vars /\ WF_vars(watch)

----------------------------------------------------------------------------
(* The same watcher with the two threads interleaved at every call of the      *)
(* queue: the observer thread runs on_created while the loop of watch is       *)
(* between queue.empty(), queue.get() and producer.produce                     *)

\* mutant: the loop calls queue.get() without asking queue.empty()
watch_empty_not_asked ==
    /\ pc = "watch"
    /\ pc' = "get"
    /\ UNCHANGED <<envVars, objVars, error, caller, rec, pend, histVars, broker, queueVars>>

\* watch line 81: if not queue.empty(), and the sleep when it is
watch_empty ==
    /\ pc = "watch"
    /\ pc' = IF queue = <<>> THEN "watch" ELSE "get"
    /\ UNCHANGED <<envVars, objVars, error, caller, rec, pend, histVars, broker, queueVars>>

\* watch line 82: queue.get(), which waits for an item when there is none
watch_get ==
    /\ pc \in {"get", "blocked"}
    /\ UNCHANGED <<envVars, objVars, error, caller, rec, pend, histVars, broker, arrived, sent>>
    /\ IF queue = <<>>
       THEN /\ pc' = "blocked"
            /\ UNCHANGED <<queue, got>>
       ELSE /\ pc' = "produce"
            /\ got' = <<Head(queue)>>
            /\ queue' = Tail(queue)

\* watch lines 82-83: await producer.produce(...), then the sleep
watch_produce ==
    /\ pc = "produce"
    /\ UNCHANGED <<envVars, objVars, caller, rec, pend, histVars, broker, queue, arrived>>
    /\ got' = <<>>
    /\ \E produceOk \in BOOLEAN :
         IF produceOk
         THEN /\ sent' = Append(sent, got[1])
              /\ pc' = "watch"
              /\ error' = error
         ELSE /\ Raise("EmissionError")
              /\ sent' = sent

NextQueueThreads ==
    \/ on_created
    \/ watch_empty
    \/ watch_get
    \/ watch_produce

SpecQueueThreads == InitQueue /\ [][NextQueueThreads]_vars

----------------------------------------------------------------------------
(* What the claims speak of *)

\* the run numbers the callback was given, this process, in order
NotifiedRuns == [i \in 1..Len(emitted) |-> int(emitted[i].run_number)]

\* the int of what the running or last handler read from lastrun.txt
Current == PyToInt(iter.current)

\* __init__ and _init are over: _init returned, or an exception of the detector's
\* own code ended them (not a failure of the store or of the callback, not a kill)
InitEnded ==
    /\ iter.kind = "init"
    /\ \/ iter.done
       \/ pc = "dead" /\ error \in {"TypeError", "RuntimeError", "FileNotFoundError"}

\* a pass of the loop that read a well-formed lastrun.txt is running or was the
\* last one
InPoll == iter.kind = "poll" /\ iter.current # None

\* the running or last pass of the loop is a recovery batch whose earlier
\* boundary is "0001"
InPadBatch ==
    /\ InPoll
    /\ trace # <<>>
    /\ trace[1].op = "recover_lost_runs"
    /\ trace[1].a = PadRecorded

\* the running or last pass of the loop is a recovery batch
InBatch ==
    /\ InPoll
    /\ trace # <<>>
    /\ trace[1].op = "recover_lost_runs"

\* the run of the batch during which call i of the trace was made
RunOfCall(i) ==
    LET mark == CHOOSE j \in 1..i :
                    /\ trace[j].op = "run"
                    /\ \A h \in (j + 1)..i : trace[h].op # "run"
    IN int(trace[mark].a)

\* the running or last handler attempted run number k: as a run of a recovery
\* batch, or as the run new_run_detected was called with by the loop
Attempted(k) ==
    \E i \in 1..Len(trace) :
        /\ trace[i].op \in {"run", "new_run_detected"}
        /\ int(trace[i].a) = k

\* the run numbers the running or last recovery batch logged and skipped
SkippedInBatch == SkippedRuns(trace)

\* the in-memory watermark as an integer
Recorded == PyToInt(last_recorded_run_from_file)

\* get_latest_run_from_db: what DBUpdater.get_latest_run gives for the row of
\* the instrument, the value of its integer column or None
get_latest_run_from_db == db

\* this step calls get_latest_cycle: it is __init__ past the read of a
\* well-formed lastrun.txt, or a pass of the loop more than six hours after the
\* last check (a step of the process: the environment's steps use its budget)
CallsGetLatestCycle ==
    \/ pc = "start" /\ pc' # "start" /\ Len(file) = 3
    \/ /\ pc = "steady"
       /\ budget' = budget
       /\ (now - last_cycle_folder_check) > CycleRecheckSeconds

\* call i of the trace after this step was made by this step (a pass of the
\* loop starts a new trace, the steps inside a pass add to it)
MadeByStep(i) ==
    /\ i \in 1..Len(trace')
    /\ IF pc = "steady" THEN budget' = budget
       ELSE trace' # trace /\ i > Len(trace)

\* the direct candidate of generate_run_path in this step: the file of that run
\* number in the cached cycle
DirectCandidate(run_number) == [cycle |-> latest_cycle', digits |-> run_number]

\* the places of the produce calls in the calls on_event made
Produces == {i \in 1..Len(broker) : broker[i].op = "produce"}
\* the place of its first produce call
FirstProduce == CHOOSE i \in Produces : \A j \in Produces : i <= j

\* how start_watching ended: an exception of create_last_run_detector leaves
\* it, one of watch_for_new_runs is caught by its except Exception, logged, and
\* it returns
start_watching_outcome ==
    IF pc # "dead" THEN "running"
    ELSE IF error = "killed" THEN "killed"
    ELSE IF iter.kind = "poll" THEN "returned"
    ELSE "raised"

\* this step calls get_last_run_from_file: it is __init__, or a pass of the
\* loop (a step of the process: the environment's steps use its budget)
CallsGetLastRunFromFile ==
    \/ pc = "start" /\ pc' # "start"
    \/ pc = "steady" /\ budget' = budget

\* the calls of op the running handler made
CallsOf(op) == SelectSeq(trace, LAMBDA c : c.op = op)

\* the last pass of the loop is over and left the run number it read, the
\* text run_number, unresolved: logged, not notified
LeftUnresolved(run_number) ==
    /\ pc = "steady"
    /\ InPoll
    /\ iter.done
    /\ iter.current = PyStr(run_number)
    /\ file = WellFormedLine(run_number)
    /\ \E i \in 1..Len(trace) :
          /\ trace[i].op = "logger.exception"
          /\ int(trace[i].a) = int(run_number)
    /\ \A j \in 1..Len(emitted) : NotifiedRuns[j] # int(run_number)

\* this step is the callback of new_run_detected raising: on_event made its
\* calls to the broker and the last of them failed
CallbackRaises ==
    /\ pc = "notify"
    /\ broker' # <<>>
    /\ broker'[Len(broker')].result \in {"MemphisError", "Exception"}

\* the number of times this process notified run number k
TimesNotified(k) == Cardinality({i \in 1..Len(emitted) : NotifiedRuns[i] = k})

----------------------------------------------------------------------------
(* The claims *)

\* C1: when the detector is created with a persisted watermark P and a local
\* watermark L, int(P) < int(L), and every run file of (P, L] is in the archive,
\* initialization notifies exactly the runs P+1..L, once each, ascending, and the
\* persisted watermark is then L.
C1_StartupReconciliation ==
    (/\ InitEnded
     /\ iter.db0.ty = "int"
     /\ iter.current # None
     /\ iter.db0.n < Current
     /\ \A n \in (iter.db0.n + 1)..Current : RunFile(n) \in archive)
    => /\ NotifiedRuns = [i \in 1..(Current - iter.db0.n) |-> iter.db0.n + i]
       /\ db = PyInt(Current)

\* C2: the run numbers passed to the callback by one process are strictly
\* ascending, whatever lastrun.txt shows and whatever the archive holds.
C2_StrictlyAscending ==
    \A i \in 1..(Len(emitted) - 1) : NotifiedRuns[i] < NotifiedRuns[i + 1]

\* C3: the persisted watermark never decreases: every write of the store carries
\* a run number at or above the one persisted before it.
C3_PersistedNeverDecreases ==
    [][(db.ty = "int" /\ db'.ty = "int") => db'.n >= db.n]_vars

\* C5: one process notifies no run number twice, whatever lastrun.txt shows.
C5_NoRunNotifiedTwice ==
    \A i, j \in 1..Len(emitted) : i # j => NotifiedRuns[i] # NotifiedRuns[j]

\* C4 as claimed: after initialization and after every completed pass of the loop
\* the persisted watermark is not above the local watermark read in that pass.
C4_PersistedNotAboveLocal_Original ==
    (iter.done /\ iter.current # None /\ db # None) => db.n <= Current

\* C4, amended: the same, provided the persisted watermark was not ahead of
\* lastrun.txt at startup and lastrun.txt never went down.
C4_PersistedNotAboveLocal ==
    (~regressed /\ iter.done /\ iter.current # None /\ db # None) => db.n <= Current

\* C4 witness: a pass of the loop notified a run and completed, lastrun.txt never
\* went down, and the persisted watermark is the one read.
C4_Witness ==
    /\ ~regressed
    /\ iter.kind = "poll"
    /\ iter.done
    /\ iter.current # None
    /\ Len(emitted) > iter.n0
    /\ db = PyInt(Current)
    /\ db # iter.db0

\* C6: a run r notified but not persisted when the process stopped is notified
\* again by the initialization of the next process, which resumes from the
\* persisted watermark (below r), lastrun.txt being at or above r.
C6_ReplayedAfterRestart ==
    (/\ replayDue # None
     /\ InitEnded
     /\ iter.current # None
     /\ iter.db0.ty = "int"
     /\ iter.db0.n < PyToInt(replayDue)
     /\ PyToInt(replayDue) <= Current)
    => \E i \in 1..Len(emitted) : NotifiedRuns[i] = PyToInt(replayDue)

\* C7: for every emitted run the callback returns, then the store is set to the
\* run, then the in-memory watermark is set to it: a step that writes the store
\* for an emission writes the run notified last, and a step that moves the
\* in-memory watermark moves it to the run the store was written with last.
C7_NotifyThenPersistThenAdvance ==
    [][/\ (emitted' # emitted /\ pc' # "start")
            => /\ db' = db
               /\ writes' = writes
               /\ last_recorded_run_from_file' = last_recorded_run_from_file
       /\ (writes' # writes /\ pc \notin {"start", "dead"})
            => /\ emitted' = emitted
               /\ Len(emitted) = Len(EmissionWrites) + 1
               /\ writes'[Len(writes')].run_number = emitted[Len(emitted)].run_number
               /\ db' = PyInt(NotifiedRuns[Len(emitted)])
               /\ last_recorded_run_from_file' = last_recorded_run_from_file
       /\ (last_recorded_run_from_file' # last_recorded_run_from_file
             /\ pc \notin {"start", "dead"})
            => /\ emitted' = emitted
               /\ writes' = writes
               /\ Len(emitted) > 0
               /\ Len(EmissionWrites) = Len(emitted)
               /\ last_recorded_run_from_file' = PyStr(emitted[Len(emitted)].run_number)
               /\ last_recorded_run_from_file'.s = writes[Len(writes)].run_number
               /\ db = PyInt(int(last_recorded_run_from_file'.s))
      ]_vars

\* C7 witness: a recovery batch has notified, persisted and recorded a run and
\* has notified the next one, which is neither persisted nor recorded yet.
C7_Witness ==
    /\ pc = "persist"
    /\ rec # NoRec
    /\ Len(emitted) = 2
    /\ Len(EmissionWrites) = 1
    /\ last_recorded_run_from_file = PyStr(emitted[1].run_number)
    /\ db = PyInt(NotifiedRuns[1])

\* C8: a pass of the loop that reads a run number equal, as an integer, to the
\* in-memory watermark does nothing: no call of new_run_detected or
\* recover_lost_runs, no callback, no store write, in-memory watermark unchanged.
C8_EqualByValueIsNoOp ==
    (InPoll /\ Current = PyToInt(iter.recorded0))
    => /\ trace = <<>>
       /\ Len(emitted) = iter.n0
       /\ Len(writes) = iter.w0
       /\ db = iter.db0
       /\ (pc # "dead" => last_recorded_run_from_file = iter.recorded0)

\* C9 as claimed: a completed pass of the loop with int(current) - int(recorded) = 1
\* emitted exactly one notification, for current, by new_run_detected(current),
\* and did not call recover_lost_runs.
C9_SingleStep_Original ==
    (InPoll /\ iter.done /\ Current - PyToInt(iter.recorded0) = 1)
    => /\ Len(emitted) = iter.n0 + 1
       /\ emitted[Len(emitted)].run_number = iter.current.s
       /\ CallsOf("new_run_detected") = <<Call("new_run_detected", iter.current.s, <<>>)>>
       /\ CallsOf("recover_lost_runs") = <<>>

\* C9, amended: in such a pass new_run_detected is called once, with the text
\* read, and recover_lost_runs is not called; the pass emits at most one
\* notification, for current; once complete it has emitted exactly one when
\* generate_run_path resolved current, and none when it did not.
C9_SingleStep ==
    (InPoll /\ Current - PyToInt(iter.recorded0) = 1)
    => /\ CallsOf("new_run_detected") = <<Call("new_run_detected", iter.current.s, <<>>)>>
       /\ CallsOf("recover_lost_runs") = <<>>
       /\ CallsOf("run") = <<>>
       /\ Len(emitted) <= iter.n0 + 1
       /\ Len(emitted) = iter.n0 + 1 => emitted[Len(emitted)].run_number = iter.current.s
       /\ iter.done =>
            /\ CallsOf("generate_run_path") =
                   <<Call("generate_run_path", iter.current.s,
                          IF Len(emitted) = iter.n0 + 1 THEN Found ELSE NotFound)>>

\* C9 witness: such a pass completed with its one notification.
C9_Witness ==
    /\ InPoll
    /\ iter.done
    /\ Current - PyToInt(iter.recorded0) = 1
    /\ Len(emitted) = iter.n0 + 1
    /\ last_recorded_run_from_file = iter.current

\* C10: a pass of the loop with int(current) - int(recorded) > 1 calls
\* recover_lost_runs(recorded, current), not new_run_detected(current); the
\* batch attempts the integers recorded+1 .. current, each once, ascending.
C10_GapRunsRecovery ==
    (InPoll /\ Current - PyToInt(iter.recorded0) > 1)
    => /\ trace[1] = Call("recover_lost_runs", iter.recorded0.s, iter.current.s)
       /\ CallsOf("recover_lost_runs") = <<trace[1]>>
       /\ CallsOf("new_run_detected") = <<>>
       /\ LET attempted == CallsOf("run")
          IN /\ Len(attempted) <= Current - PyToInt(iter.recorded0)
             /\ \A i \in 1..Len(attempted) :
                   attempted[i].a = str(PyToInt(iter.recorded0) + i)
             /\ iter.done => Len(attempted) = Current - PyToInt(iter.recorded0)

\* C10 witness: a batch over a gap of two completed; it notified the first run
\* and skipped the last one.
C10_Witness ==
    /\ InPoll
    /\ iter.done
    /\ Current - PyToInt(iter.recorded0) = 2
    /\ Len(CallsOf("run")) = 2
    /\ Len(emitted) = iter.n0 + 1
    /\ CallsOf("logger.exception") # <<>>

\* C11 as claimed: in a batch whose earlier boundary is "0001", the first
\* candidate resolved for run 10 is "0010" and the second, resolved only when
\* the first is absent, is "010".
C11_PaddingFallback_Original ==
    \A p \in 1..Len(trace) :
        (InPadBatch /\ trace[p] = Call("run", str(10), <<>>))
        => /\ trace[p + 1].op = "generate_run_path"
           /\ trace[p + 1].a = <<0, 0, 1, 0>>
           /\ trace[p + 1].b = NotFound
                => /\ trace[p + 2].op = "generate_run_path"
                   /\ trace[p + 2].a = <<0, 1, 0>>

\* C11, amended: in such a batch the first candidate resolved for run 10 is
\* "00010" (the three zeros of "0001", then "10"); only if it is absent is the
\* second candidate "0010" resolved, and "010" never is; if both are absent run
\* 10 is logged and skipped, without a notification, and run 11 is attempted
\* next when the batch goes that far.
C11_PaddingFallback ==
    \A p \in 1..Len(trace) :
        (InPadBatch /\ trace[p] = Call("run", str(10), <<>>))
        => /\ trace[p + 1].op = "generate_run_path"
           /\ trace[p + 1].a = <<0, 0, 0, 1, 0>>
           /\ \A q \in 1..Len(trace) :
                 trace[q].op = "generate_run_path" => trace[q].a # <<0, 1, 0>>
           /\ trace[p + 1].b = Found
                => /\ Len(trace) > p + 1 => trace[p + 2].op = "async_callback"
                   /\ Len(trace) = p + 1 => pend.run_number = <<0, 0, 0, 1, 0>>
           /\ trace[p + 1].b = NotFound
                => /\ trace[p + 2].op = "generate_run_path"
                   /\ trace[p + 2].a = <<0, 0, 1, 0>>
                   /\ trace[p + 2].b = Found
                        => /\ Len(trace) > p + 2 => trace[p + 3].op = "async_callback"
                           /\ Len(trace) = p + 2 => pend.run_number = <<0, 0, 1, 0>>
                   /\ trace[p + 2].b = NotFound
                        => /\ trace[p + 3].op = "logger.exception"
                           /\ \A i \in 1..Len(emitted) : NotifiedRuns[i] # 10
                           /\ IF int(trace[1].b) > 10
                              THEN IF Len(trace) > p + 3
                                   THEN trace[p + 4] = Call("run", str(11), <<>>)
                                   ELSE pc = "recover" /\ rec.run = 11
                              ELSE Len(trace) = p + 3 /\ iter.done

\* C11 witness: a batch from "0001" to "0011" found run 10 under neither
\* candidate and went on to run 11.
C11_Witness ==
    /\ InPadBatch
    /\ \E p \in 1..Len(trace) :
         /\ trace[p] = Call("run", str(10), <<>>)
         /\ trace[p + 1] = Call("generate_run_path", <<0, 0, 0, 1, 0>>, NotFound)
         /\ trace[p + 2] = Call("generate_run_path", <<0, 0, 1, 0>>, NotFound)
         /\ Len(trace) > p + 3
         /\ trace[p + 4] = Call("run", str(11), <<>>)

\* C12: when the store has no row for the instrument at creation, the detector
\* writes the local watermark to the store exactly once, notifies nothing, runs
\* no recovery batch, and is in steady state with the in-memory watermark equal
\* to the local watermark.
C12_SeedWhenNoRecord ==
    (iter.kind = "init" /\ iter.db0 = None /\ iter.current # None)
    => /\ pc = "dead" => error \in {"StoreError", "killed"}
       /\ pc # "dead"
            => /\ writes = <<Write(iter.current.s, "__init__")>>
               /\ db = PyInt(Current)
               /\ emitted = <<>>
               /\ CallsOf("recover_lost_runs") = <<>>
               /\ CallsOf("run") = <<>>
               /\ CallsOf("async_callback") = <<>>
               /\ last_recorded_run_from_file = iter.current
               /\ pc \in {"constructed", "steady"}
               /\ iter.done <=> pc = "steady"

\* C12 witness: initialization is over for a detector that found no row; the
\* store holds the run number of lastrun.txt, which has leading zeros.
C12_Witness ==
    /\ iter.kind = "init"
    /\ iter.db0 = None
    /\ iter.done
    /\ pc = "steady"
    /\ Len(iter.current.s) > Len(str(Current))
    /\ Len(writes) = 1
    /\ db = PyInt(Current)

\* C13: in a recovery batch a run number neither candidate resolves for is
\* logged once, is neither notified nor written to the store, and does not end
\* the batch: the next run number is attempted, up to later_run, and no
\* FileNotFoundError leaves recover_lost_runs.
C13_SkipDoesNotAbort ==
    InBatch
    => /\ pc = "dead" => error \in {"EmissionError", "StoreError", "killed"}
       /\ \A i \in 1..Len(trace) :
            trace[i].op = "logger.exception"
            => LET k == RunOfCall(i)
               IN /\ int(trace[i].a) = k
                  /\ trace[i - 1].op = "generate_run_path"
                  /\ trace[i - 1].b = NotFound
                  /\ \A j \in 1..Len(trace) :
                        /\ trace[j].op \in {"async_callback", "update_db_with_latest_run"}
                              => int(trace[j].a) # k
                        /\ (trace[j].op = "logger.exception" /\ j # i)
                              => int(trace[j].a) # k
                  /\ \A j \in 1..Len(emitted) : j > iter.n0 => NotifiedRuns[j] # k
                  /\ IF k < Current
                     THEN IF Len(trace) > i
                          THEN trace[i + 1] = Call("run", str(k + 1), <<>>)
                          ELSE \/ pc = "recover" /\ rec.run = k + 1
                               \/ pc = "dead" /\ error = "killed"
                     ELSE Len(trace) = i /\ iter.done

\* C13 witness: a batch skipped its first run, notified the next one and
\* completed.
C13_Witness ==
    /\ InBatch
    /\ iter.done
    /\ pc = "steady"
    /\ Len(emitted) = iter.n0 + 1
    /\ \E i \in 1..Len(trace) :
         /\ trace[i].op = "logger.exception"
         /\ RunOfCall(i) = PyToInt(iter.recorded0) + 1
         /\ NotifiedRuns[Len(emitted)] = RunOfCall(i) + 1

\* C14 as claimed: a run number a recovery batch skipped is never attempted
\* again by a later pass of the loop of the same process.
C14_SkippedNeverRetried_Original ==
    InPoll => \A k \in skipped : ~Attempted(k)

\* C14, amended: a later pass attempts a skipped run number again only when the
\* in-memory watermark is still below it at that pass (it was skipped at the
\* tail of its batch) or when the pass reads that very run number from
\* lastrun.txt; and a completed pass does attempt again every skipped run number
\* above the in-memory watermark and at or below the run number it read.
C14_SkippedNeverRetried ==
    InPoll
    => \A k \in skipped :
          /\ Attempted(k) => (PyToInt(iter.recorded0) < k \/ Current = k)
          /\ (iter.done /\ PyToInt(iter.recorded0) < k /\ k <= Current) => Attempted(k)

\* C14 witness: a completed pass attempted again the run number the batch of an
\* earlier pass had skipped at its tail.
C14_Witness ==
    /\ InPoll
    /\ iter.done
    /\ \E k \in skipped :
         /\ Attempted(k)
         /\ PyToInt(iter.recorded0) < k
         /\ k = Current
         /\ NotifiedRuns # <<>>
         /\ NotifiedRuns[Len(emitted)] = k - 1

\* C15 as claimed: a batch in which run k resolved under neither candidate does
\* not set the in-memory watermark to a run number greater than k.
C15_NotPastUnfilledGap_Original ==
    InBatch
    => \A k \in SkippedInBatch :
          last_recorded_run_from_file # iter.recorded0 => Recorded < k

\* C15, amended: a batch sets the in-memory watermark to each run it emits and
\* to nothing else: never to a skipped run k, above k only by a run emitted
\* after k, and once the batch is complete it is the last run the batch
\* emitted (so above k whenever a run after k was emitted), or what it was when
\* the batch emitted nothing.
C15_NotPastUnfilledGap ==
    InBatch
    => /\ \A k \in SkippedInBatch :
            /\ Recorded # k
            /\ Recorded > k
                 => \E j \in 1..Len(emitted) :
                       /\ j > iter.n0
                       /\ last_recorded_run_from_file = PyStr(emitted[j].run_number)
            /\ (iter.done /\ Len(emitted) > iter.n0 /\ NotifiedRuns[Len(emitted)] > k)
                 => Recorded > k
       /\ iter.done
            => last_recorded_run_from_file =
                  IF Len(emitted) > iter.n0
                  THEN PyStr(emitted[Len(emitted)].run_number)
                  ELSE iter.recorded0

\* C15 witness: a completed batch skipped a run and left the in-memory
\* watermark on the run after it.
C15_Witness ==
    /\ InBatch
    /\ iter.done
    /\ \E k \in SkippedInBatch :
         /\ Recorded = k + 1
         /\ PyToInt(iter.recorded0) = k - 1

\* C16: when the run the loop detected directly (single-run path) resolves to
\* no file, the callback is not invoked, the failure is logged, the store is
\* not written and the in-memory watermark stays as it was.
C16_UnresolvedSingleRun ==
    (/\ InPoll
     /\ Len(trace) >= 2
     /\ trace[1] = Call("new_run_detected", iter.current.s, <<>>)
     /\ trace[2] = Call("generate_run_path", iter.current.s, NotFound))
    => /\ trace = <<trace[1], trace[2], Call("logger.exception", iter.current.s, <<>>)>>
       /\ Len(emitted) = iter.n0
       /\ Len(writes) = iter.w0
       /\ db = iter.db0
       /\ last_recorded_run_from_file = iter.recorded0
       /\ iter.done
       /\ pc = "steady" \/ (pc = "dead" /\ error = "killed")

\* C16 witness: a pass read the run after the in-memory watermark, found no
\* file for it, and completed.
C16_Witness ==
    /\ InPoll
    /\ iter.done
    /\ Current = PyToInt(iter.recorded0) + 1
    /\ Len(trace) = 3
    /\ trace[2] = Call("generate_run_path", iter.current.s, NotFound)
    /\ pc = "steady"
    /\ find_file_in_instruments_data_folder(iter.current.s) = {}

\* C17: a pass of the loop that finds lastrun.txt malformed (not three tokens)
\* is logged and skipped: the loop goes on, nothing is notified or written, and
\* the pass leaves everything a later pass detects new runs from (the in-memory
\* watermark, the latest cycle as the time check sets it) as a pass that found
\* no new run would.
C17_MalformedSkipped ==
    [][(pc = "steady" /\ budget' = budget /\ Len(file) # 3)
        => /\ pc' = "steady"
           /\ error' = error
           /\ emitted' = emitted
           /\ writes' = writes
           /\ db' = db
           /\ last_recorded_run_from_file' = last_recorded_run_from_file
           /\ latest_known_run_from_db' = latest_known_run_from_db
           /\ UNCHANGED <<caller, rec, pend>>
           /\ latest_cycle' = IF (now - last_cycle_folder_check) > CycleRecheckSeconds
                               THEN get_latest_cycle ELSE latest_cycle
           /\ trace' = <<Call("logger.exception", <<>>, <<>>)>>
           /\ iter'.done
      ]_vars

\* C17 witness: a pass found lastrun.txt malformed and completed; the loop is
\* alive and the in-memory watermark is the one the pass started with.
C17_Witness ==
    /\ iter.kind = "poll"
    /\ iter.current = None
    /\ iter.done
    /\ pc = "steady"
    /\ trace = <<Call("logger.exception", <<>>, <<>>)>>
    /\ last_recorded_run_from_file = iter.recorded0
    /\ Len(file) # 3

\* C18: after the detector updates the store with a run identifier, reading the
\* latest run of the instrument gives back the same digit text, leading zeros
\* included.
C18_StoreRoundTrip ==
    (pc \in {"constructed", "advance"} /\ Len(writes) > 0)
    => get_latest_run_from_db = PyStr(writes[Len(writes)].run_number)

\* C19: a row with value 0 is a record: initialization does not seed the store
\* from lastrun.txt but recovers (0, local], attempting run 1 first, with 0 as
\* the earlier boundary.
C19_ZeroIsARecord ==
    (InitEnded /\ iter.db0 = PyInt(0) /\ iter.current # None)
    => /\ writes = <<>> \/ writes[1].by # "__init__"
       /\ trace # <<>>
       /\ trace[1] = Call("recover_lost_runs", str(0), iter.current.s)
       /\ CallsOf("run") # <<>>
       /\ CallsOf("run")[1].a = str(1)
       /\ error # "TypeError"

\* C20: get_latest_cycle returns the lexicographically greatest entry of the
\* listing of NDXWISH/instrument/data, whatever non-empty set of entries it
\* holds, and raises FileNotFoundError when the listing is empty.
C20_LatestCycle ==
    [][CallsGetLatestCycle
        => IF cyclesDir = {}
           THEN pc' = "dead" /\ error' = "FileNotFoundError"
           ELSE /\ error' # "FileNotFoundError"
                /\ pc' # "dead"
                     => /\ latest_cycle' \in cyclesDir
                        /\ \A d \in cyclesDir :
                              d = latest_cycle' \/ LexLess(d, latest_cycle')
      ]_vars

\* C20 witness: a pass of the loop made the six-hour check over a listing of
\* four entries and holds the greatest of them.
C20_Witness ==
    /\ iter.kind = "poll"
    /\ pc = "steady"
    /\ last_cycle_folder_check > 0
    /\ last_cycle_folder_check = now
    /\ cyclesDir = CycleNames
    /\ latest_cycle = NewCycle

\* C21: a pass of the loop looks the cycle up again only when more than 21,600
\* seconds have passed since the last look-up, and then takes the time of the
\* pass as the new reference: two look-ups in a row are more than 21,600
\* seconds apart, and the passes in between keep the cycle they have.
C21_CycleRecheck ==
    [][(pc # "start" /\ pc' # "start")
        => /\ (/\ pc = "steady"
               /\ budget' = budget
               /\ (now - last_cycle_folder_check) > CycleRecheckSeconds
               /\ pc' # "dead")
                => /\ last_cycle_folder_check' = now
                   /\ latest_cycle' = get_latest_cycle
           /\ (/\ pc = "steady"
               /\ budget' = budget
               /\ (now - last_cycle_folder_check) <= CycleRecheckSeconds)
                => /\ last_cycle_folder_check' = last_cycle_folder_check
                   /\ latest_cycle' = latest_cycle
           /\ last_cycle_folder_check' # last_cycle_folder_check
                => /\ last_cycle_folder_check' = now
                   /\ last_cycle_folder_check' - last_cycle_folder_check
                         > CycleRecheckSeconds
           /\ latest_cycle' # latest_cycle
                => last_cycle_folder_check' # last_cycle_folder_check
      ]_vars

\* C21 witness: the loop has looked the cycle up twice, 21,601 seconds apart.
C21_Witness ==
    /\ pc = "steady"
    /\ iter.kind = "poll"
    /\ last_cycle_folder_check = 2 * (CycleRecheckSeconds + 1)
    /\ now = last_cycle_folder_check

\* C22: generate_run_path returns the direct candidate (the file of that run
\* number in the cached cycle) when it exists; otherwise a file, of any cycle,
\* whose name ends with the run number; it raises FileNotFoundError exactly
\* when the direct candidate does not exist and no file name ends with the run
\* number.
C22_GenerateRunPath ==
    [][/\ \A i \in 1..Len(trace') :
            (MadeByStep(i) /\ trace'[i].op = "generate_run_path")
            => (trace'[i].b = NotFound
                  <=> /\ DirectCandidate(trace'[i].a) \notin archive
                      /\ \A f \in archive : ~EndsWith(f.digits, trace'[i].a))
       /\ (pend' # pend /\ pc' = "notify")
            => IF DirectCandidate(pend'.run_number) \in archive
               THEN pend'.run_path = DirectCandidate(pend'.run_number)
               ELSE /\ pend'.run_path \in archive
                    /\ EndsWith(pend'.run_path.digits, pend'.run_number)
      ]_vars

\* C22 witness: the direct candidate of the run to notify does not exist and
\* the search found a file whose name is longer than the run number.
C22_Witness ==
    /\ pc = "notify"
    /\ [cycle |-> latest_cycle, digits |-> pend.run_number] \notin archive
    /\ pend.run_path \in archive
    /\ Len(pend.run_path.digits) > Len(pend.run_number)

\* C23: on_event produces at most twice: when the first produce raises
\* MemphisError it connects to the broker once and produces the same payload
\* again; when the second produce fails nothing more is tried, the exception
\* leaves on_event and the loop of watch_for_new_runs is over.
C23_OneRetry ==
    broker # <<>>
    => /\ Cardinality(Produces) <= 2
       /\ Produces # {}
            => LET i == FirstProduce
               IN /\ broker[i].path = pend.run_path
                  /\ broker[i].result = "ok" => (Len(broker) = i /\ error # "EmissionError")
                  /\ broker[i].result = "Exception"
                       => (Len(broker) = i /\ pc = "dead" /\ error = "EmissionError")
                  /\ broker[i].result = "MemphisError"
                       => /\ Len(broker) > i
                          /\ broker[i + 1].op = "connect_to_broker"
                          /\ IF broker[i + 1].result = "ok"
                             THEN /\ Len(broker) = i + 2
                                  /\ broker[i + 2].op = "produce"
                                  /\ broker[i + 2].path = broker[i].path
                                  /\ IF broker[i + 2].result = "ok"
                                     THEN error # "EmissionError"
                                     ELSE pc = "dead" /\ error = "EmissionError"
                             ELSE /\ Len(broker) = i + 1
                                  /\ pc = "dead"
                                  /\ error = "EmissionError"

\* C23 witness: the first produce of a notification raised MemphisError, the
\* second one, after one connect, went through, and the callback returned.
C23_Witness ==
    /\ pc = "persist"
    /\ Cardinality(Produces) = 2
    /\ broker[FirstProduce].result = "MemphisError"
    /\ broker[Len(broker)].result = "ok"
    /\ emitted # <<>>
    /\ emitted[Len(emitted)] = pend

\* C30: on_event asks the broker connection first: when is_connected() is
\* false it calls connect_to_broker exactly once before the first produce, and
\* then produces the message; when it is true no connect precedes the first
\* produce.
C30_ConnectBeforeProduce ==
    broker # <<>>
    => /\ broker[1].op = "is_connected"
       /\ IF broker[1].result = "False"
          THEN /\ Len(broker) >= 2
               /\ broker[2].op = "connect_to_broker"
               /\ IF broker[2].result = "ok"
                  THEN /\ Len(broker) >= 3
                       /\ broker[3].op = "produce"
                       /\ broker[3].path = pend.run_path
                       /\ FirstProduce = 3
                  ELSE /\ Len(broker) = 2
                       /\ pc = "dead"
                       /\ error = "EmissionError"
          ELSE /\ Len(broker) >= 2
               /\ broker[2].op = "produce"
               /\ broker[2].path = pend.run_path

\* C30 witness: the broker was not connected; on_event connected, produced the
\* path of the run, and the callback returned.
C30_Witness ==
    /\ pc = "persist"
    /\ Len(broker) = 3
    /\ broker[1].result = "False"
    /\ broker[2] = BrokerCall("connect_to_broker", NoPath, "ok")
    /\ broker[3] = BrokerCall("produce", pend.run_path, "ok")

\* C24: the store write of an emission is attempted once: when it fails the
\* exception leaves new_run_detected, the batch if there is one, and the loop,
\* which is over; the store and the in-memory watermark stay as they were, the
\* in-memory watermark is not the run whose write failed, and it moves to a
\* run only after that run's write went through.
C24_StoreFailureFatal ==
    [][/\ pc = "persist" => pc' \in {"persist", "advance", "dead"}
       /\ (pc = "persist" /\ pc' = "advance")
            => /\ writes' = Append(writes, Write(pend.run_number, "new_run_detected"))
               /\ db' = PyInt(int(pend.run_number))
       /\ (pc = "persist" /\ pc' = "dead" /\ error' = "StoreError")
            => /\ db' = db
               /\ writes' = writes
               /\ emitted' = emitted
               /\ last_recorded_run_from_file' = last_recorded_run_from_file
               /\ last_recorded_run_from_file # PyStr(pend.run_number)
       /\ (pc = "dead" /\ error = "StoreError" /\ pc' = "dead")
            => UNCHANGED <<db, writes, emitted, trace, last_recorded_run_from_file>>
      ]_vars

\* C24 witness: the store write of the first run of a recovery batch failed;
\* the loop is over and the in-memory watermark is where the batch started.
C24_Witness ==
    /\ pc = "dead"
    /\ error = "StoreError"
    /\ iter.kind = "poll"
    /\ rec # NoRec
    /\ Len(emitted) = iter.n0 + 1
    /\ Len(writes) = iter.w0
    /\ last_recorded_run_from_file = iter.recorded0

\* C25: an exception that leaves watch_for_new_runs is logged by start_watching,
\* which returns; the process then polls, notifies and writes nothing more: it
\* stays as it is until the supervisor starts a new process.
C25_FailedIsTerminal ==
    [][/\ error' # "none" => pc' = "dead"
       /\ (pc' = "dead" /\ iter'.kind = "poll" /\ error' # "killed")
            => start_watching_outcome' = "returned"
       /\ pc = "dead"
            => \/ /\ pc' = "dead"
                  /\ error' = error
                  /\ UNCHANGED <<db, objVars, emitted, writes, trace, iter, broker>>
               \/ /\ pc' = "start"
                  /\ inst' = inst + 1
      ]_vars

\* C25 witness: the callback raised in a pass of the loop; start_watching has
\* returned, and lastrun.txt has since changed without any further pass.
C25_Witness ==
    /\ start_watching_outcome = "returned"
    /\ error = "EmissionError"
    /\ iter.current # None
    /\ get_last_run_from_file # iter.current

\* C26: get_last_run_from_file returns the second token of the first line of
\* lastrun.txt when the line has exactly three tokens, and raises RuntimeError
\* for every other number of tokens, none included: in __init__ the error ends
\* the process, in the loop it is logged.
C26_ThreeTokens ==
    [][CallsGetLastRunFromFile
        => IF Len(file) = 3
           THEN /\ iter'.current = PyStr(file[2])
                /\ error' # "RuntimeError"
           ELSE /\ iter'.current = None
                /\ pc = "start" => (pc' = "dead" /\ error' = "RuntimeError")
                /\ pc = "steady"
                     => /\ pc' = "steady"
                        /\ trace' = <<Call("logger.exception", <<>>, <<>>)>>
      ]_vars

\* C26 witness: a pass of the loop read a line of four tokens, the second a
\* run number above the in-memory watermark, and took it for malformed.
C26_Witness ==
    /\ iter.kind = "poll"
    /\ iter.done
    /\ iter.current = None
    /\ Len(file) = 4
    /\ int(file[2]) > Recorded
    /\ pc = "steady"

C28_QueueHoldsFiles ==
    LET files == FilePaths(arrived)
        taken == Len(files) - Len(queue)
    IN /\ taken >= 0
       /\ queue = SubSeq(files, taken + 1, Len(files))
       /\ taken = IF pc = "watch" THEN Len(sent) ELSE Len(sent) + 1

\* C28 witness: a file, a directory and another file were created; the queue
\* holds the paths of the two files, in that order.
C28_Witness ==
    /\ Len(arrived) = 3
    /\ ~arrived[1].is_directory
    /\ arrived[2].is_directory
    /\ ~arrived[3].is_directory
    /\ arrived[1].src_path # arrived[3].src_path
    /\ queue = <<arrived[1].src_path, arrived[3].src_path>>

\* C29: a pass of the loop of watch produces at most one message: none when
\* the queue is empty, otherwise the head of the queue, which it removes; the
\* paths are produced in the order they were queued, each once; and as long as
\* the loop runs and produce does not fail every queued path is produced in
\* the end.
C29_WatchLoop ==
    /\ [][(pc = "watch" /\ arrived' = arrived)
            => /\ queue = <<>> => (sent' = sent /\ queue' = queue)
               /\ (queue # <<>> /\ queue' # queue)
                    => /\ queue' = Tail(queue)
                       /\ \/ sent' = Append(sent, Head(queue))
                          \/ sent' = sent /\ pc' = "dead"
               /\ queue' = queue => sent' = sent
          ]_vars
    /\ [](pc = "watch" => FilePaths(arrived) = sent \o queue)
    /\ \A n \in 1..MaxEvents :
          (Len(FilePaths(arrived)) >= n) ~> (Len(sent) >= n \/ pc = "dead")

\* C29 witness: three files were created, two of the same path, and all three
\* paths have been produced, in that order; the queue is empty.
C29_Witness ==
    /\ pc = "watch"
    /\ Len(sent) = 3
    /\ sent = FilePaths(arrived)
    /\ sent[1] = sent[3]
    /\ sent[1] # sent[2]
    /\ queue = <<>>

\* C31: a pass of the loop notifies only run numbers above the in-memory
\* watermark it started with; a pass that reads from lastrun.txt a run number
\* below the in-memory watermark notifies nothing, writes nothing to the store
\* and leaves the in-memory watermark as it was.
C31_NothingForALowerRun ==
    InPoll
    => /\ \A j \in 1..Len(emitted) :
            j > iter.n0 => NotifiedRuns[j] > PyToInt(iter.recorded0)
       /\ Current < PyToInt(iter.recorded0)
            => /\ Len(emitted) = iter.n0
               /\ Len(writes) = iter.w0
               /\ db = iter.db0
               /\ pc # "dead" => last_recorded_run_from_file = iter.recorded0

\* C32: when initialization is over, and when a pass of the loop is over,
\* without a failure, the in-memory watermark and the persisted watermark are
\* the same run number, also when the persisted watermark was ahead of
\* lastrun.txt at startup.
C32_MemoryEqualsStore ==
    (iter.kind \in {"init", "poll"} /\ iter.done /\ pc = "steady")
    => /\ db # None
       /\ db.n = Recorded

\* C33: when the pass that first read the newest run number could not locate
\* its file, and the file can be located later with lastrun.txt as it was, a
\* later pass notifies that run (every pass attempts it again, the in-memory
\* watermark being below it), and the run is notified once only.
C33_RetriedUntilNotified ==
    /\ \A t \in RunTexts :
          (LeftUnresolved(t) /\ generate_run_path(t) # {})
             ~> \/ TimesNotified(int(t)) > 0
                \/ pc = "dead"
                \/ file # WellFormedLine(t)
    /\ [](\A t \in RunTexts :
            (file = WellFormedLine(t) /\ iter.current = PyStr(t) /\ int(t) \in skipped)
               => TimesNotified(int(t)) <= 1)

\* C34: when the run files of the archive have as many digits as the text of
\* the earlier boundary, a recovery batch notifies every run of
\* (recorded, current] whose file is in the archive, also when the run numbers
\* of the batch have a digit more than the one recorded.
C34_FixedWidthBatch ==
    (/\ InBatch
     /\ iter.done
     /\ \A f \in archive : Len(f.digits) = Len(iter.recorded0.s))
    => \A f \in archive :
          (PyToInt(iter.recorded0) < int(f.digits) /\ int(f.digits) <= Current)
          => \E j \in 1..Len(emitted) :
                /\ j > iter.n0
                /\ NotifiedRuns[j] = int(f.digits)

\* C35: a path generate_run_path returns for run identifier r is the file of
\* run r, never the file of another run whose number ends with the digits of r
\* (the file of run 12 for "2"): a notification for r carries the file of r.
C35_FileOfThatRun ==
    /\ pc = "notify" => int(pend.run_path.digits) = int(pend.run_number)
    /\ \A i \in 1..Len(emitted) :
          int(emitted[i].run_path.digits) = int(emitted[i].run_number)

\* C36: when the callback raises during an emission, of the single-run path or
\* of a recovery batch, the store is not written and the in-memory watermark
\* is not changed for that run, no later run of the batch is notified, and the
\* exception leaves watch_for_new_runs.
C36_CallbackRaises ==
    /\ [][CallbackRaises
            => /\ db' = db
               /\ writes' = writes
               /\ emitted' = emitted
               /\ last_recorded_run_from_file' = last_recorded_run_from_file
               /\ latest_known_run_from_db' = latest_known_run_from_db
               /\ pc' = "dead"
               /\ error' = "EmissionError"
               /\ start_watching_outcome' = "returned"
          ]_vars
    /\ [][(pc = "dead" /\ error = "EmissionError")
            => /\ db' = db
               /\ emitted' = emitted \/ (emitted' = <<>> /\ inst' = inst + 1)
          ]_vars
    /\ []((pc = "dead" /\ error = "EmissionError")
            => /\ \A j \in 1..Len(emitted) :
                    j > iter.n0 => NotifiedRuns[j] < int(pend.run_number)
               /\ Len(writes) - iter.w0 = Len(emitted) - iter.n0
               /\ db = IF Len(emitted) > iter.n0
                        THEN PyInt(NotifiedRuns[Len(emitted)]) ELSE iter.db0
               /\ last_recorded_run_from_file =
                     IF Len(emitted) > iter.n0
                     THEN PyStr(emitted[Len(emitted)].run_number) ELSE iter.recorded0)

\* C36 witness: the callback raised for the first run of a recovery batch whose
\* next run has its file in the archive; nothing was notified, written or
\* recorded by the pass.
C36_Witness ==
    /\ pc = "dead"
    /\ error = "EmissionError"
    /\ rec # NoRec
    /\ rec.run < LastLostRun(rec.later_run)
    /\ RunFile(rec.run + 1) \in archive
    /\ Len(emitted) = iter.n0
    /\ Len(writes) = iter.w0
    /\ db = iter.db0
    /\ last_recorded_run_from_file = iter.recorded0

\* C37: with the observer thread putting paths on the queue while the loop of
\* watch, the only consumer, runs, queue.get() is called on a queue that is not
\* empty, in every interleaving: the loop never waits on an empty queue, and no
\* path put on the queue is lost or produced twice.
C37_GetOnlyWhenNotEmpty ==
    /\ pc # "blocked"
    /\ pc = "get" => queue # <<>>
    /\ pc # "dead" => FilePaths(arrived) = sent \o got \o queue
    /\ pc = "produce" <=> got # <<>>

\* C37 witness: the loop found the queue not empty and is about to call
\* queue.get(); it has produced one path already and the observer thread has
\* put two more on the queue.
C37_Witness ==
    /\ pc = "get"
    /\ Len(sent) = 1
    /\ Len(queue) = 2
    /\ Len(arrived) = 3

\* C38: a lastrun.txt that is malformed when the detector is constructed is
\* not skipped: the constructor raises, create_last_run_detector returns no
\* detector, the store is neither read nor written and nothing is notified.
C38_MalformedAtConstruction ==
    [][(pc = "start" /\ pc' # "start" /\ Len(file) # 3)
        => /\ pc' = "dead"
           /\ error' = "RuntimeError"
           /\ start_watching_outcome' = "raised"
           /\ db' = db
           /\ writes' = <<>>
           /\ emitted' = <<>>
           /\ trace' = <<>>
           /\ latest_known_run_from_db' = None
           /\ last_recorded_run_from_file' = None
      ]_vars

\* C38 witness: the constructor raised on a malformed lastrun.txt; the store
\* has a row, which the detector did not read.
C38_Witness ==
    /\ pc = "dead"
    /\ error = "RuntimeError"
    /\ iter.kind = "init"
    /\ Len(file) # 3
    /\ db # None
    /\ latest_known_run_from_db = None
    /\ writes = <<>>
    /\ emitted = <<>>

====
